---- MODULE Spec2Model ----
(***************************************************************************)
(* The companion supervisor (supervisor/supervisor.py): the registry of    *)
(* services, the request handlers, the maintenance loop and the ttyd       *)
(* session.  Everything runs on one asyncio event loop: a handler has no   *)
(* await inside it, so it runs to completion, and do_maintenance yields    *)
(* only in asyncio.sleep(1), so a whole pass over the services runs        *)
(* without a handler in between.  The Docker daemon and the ttyd process   *)
(* are outside the event loop and change at any time.                      *)
(*                                                                         *)
(* service.py (class Service) is not among the source files; its methods   *)
(* are modelled from the specification (sections 3 and 4.2).               *)
(*                                                                         *)
(* Beside the supervisor: TagFetcher (supervisor/utils/dockerhub.py), the  *)
(* cache of the tags that the registry lists for an image, and             *)
(* WPASupplicant.send_command (core/services/wifi/wpa_supplicant.py), one  *)
(* command and its reply over the control socket.                          *)
(***************************************************************************)
EXTENDS Integers, Sequences, FiniteSets, TLC

VARIABLES
    services,      \* Supervisor.services: name -> Service
    runtime,       \* the Docker daemon: name -> state of the service's container
    ttyd_session,  \* Supervisor.ttyd_session: None or the Popen of the bridge
    procs,         \* the bridge processes that are alive
    idx,           \* do_maintenance: 0 in asyncio.sleep, else the next service
    attaching,     \* attach: Idle, or the name it is about to spawn a bridge for
    last,          \* what the most recent step did (its response and its calls)
    waiting,       \* the blocking call the event loop's thread is inside, if any
    cache,         \* TagFetcher.cache and the cache attribute an instance might have
    fetches,       \* image -> remote tag fetches that have succeeded so far
    fetched,       \* what the most recent fetch_versions call did
    sock,          \* WPASupplicant.sock: None, or a socket, connected or not
    sent           \* what the most recent send_command call did

supervisorVars == <<services, runtime, ttyd_session, procs, idx, attaching, last, waiting>>
fetcherVars == <<cache, fetches, fetched>>
wifiVars == <<sock, sent>>
utilVars == <<fetcherVars, wifiVars>>

vars == <<supervisorVars, utilVars>>

----------------------------------------------------------------------------
(* Bounds of the model *)

\* the failure counter is followed up to this value when one service is registered
MaxStarts == 12
\* ... and up to this value when two are
MaxStartsPair == 1
\* bridge process handles
MaxPid == 3
\* successful remote fetches counted per image
MaxFetches == 2

----------------------------------------------------------------------------
(* Values *)

None == "none"
\* ttyd_session = None: no Popen object (pid 0 is no process)
NoSession == [pid |-> 0, container |-> None]
Idle == "-"
\* the thread is in no blocking call
NotWaiting == [op |-> "none", name |-> None]
\* dockers.json, in file order
ConfigOrder == <<"a", "b">>
\* names a caller may pass: registered or not, or no name at all
CallNames == {"a", "b", None}
Tags == {"v1", "v2"}
\* what the adapter may answer to a restart request
Payloads == {"p1", "p2"}
States == {"Stopped", "Starting", "Running", "Failed"}
ContainerOf(name) == "cid_" \o name

\* the services are visited from the last registered to the first
Keys_Reversed(svcs) ==
    SelectSeq([i \in 1..Len(ConfigOrder) |-> ConfigOrder[Len(ConfigOrder) + 1 - i]],
              LAMBDA n : n \in DOMAIN svcs)

\* dict iteration order is insertion order
Keys(svcs) == SelectSeq(ConfigOrder, LAMBDA n : n \in DOMAIN svcs)

StartsCap == IF Len(Keys(services)) = 1 THEN MaxStarts ELSE MaxStartsPair

----------------------------------------------------------------------------
(* class TagFetcher (utils/dockerhub.py) *)

Images == {"img1", "img2"}
\* TagFetcher instances: every Updater makes its own (updater.py, line 11)
Fetchers == {"f1", "f2"}
\* what the registry may list for an image; the list grows as tags are pushed
TagLists == {<<"v1">>, <<"v1", "v2">>, <<"v1", "v2", "v3">>}
\* the token argument: None, or a token the caller brings
TokenArgs == {None, "given"}
\* the auth server's answer: status 200 with a token, another status, no answer
TokenReplies == {"token", "denied", "unreachable"}
\* the registry's answer to tags/list: no answer, a body that is not JSON, JSON
\* without "tags" (an error body), or the list of tags
TagsReplies ==
    {[kind |-> k, tags |-> <<>>] : k \in {"unreachable", "notjson", "notags"}}
        \cup {[kind |-> "tags", tags |-> t] : t \in TagLists}

EmptyDict == [i \in {} |-> <<>>]
NoResult == <<>>
NoFetch == [fetcher |-> None, image |-> None, result |-> NoResult, raised |-> FALSE,
            calls |-> <<>>]

\* each instance has a cache of its own
CacheOwner_PerInstance(fetcher) == fetcher

\* line 12: cache is an attribute of the class, and no instance is ever given one:
\* self.cache is the one dict of the class for every instance
CacheOwner(fetcher) == "TagFetcher"

\* lines 14 to 26
get_token(tokenReply) ==
    [raised |-> tokenReply # "token", calls |-> <<"token">>]

\* lines 29 to 42; c is the dict self.cache.  The index_url argument only names
\* the server asked and is left out.
fetch_versions(c, image, token, tokenReply, tagsReply) ==
    IF image \in DOMAIN c
    THEN [cache |-> c, result |-> c[image], raised |-> FALSE, calls |-> <<>>]
    ELSE LET t == IF token = None
                  THEN get_token(tokenReply)
                  ELSE [raised |-> FALSE, calls |-> <<>>]
         IN IF t.raised
            THEN [cache |-> c, result |-> NoResult, raised |-> TRUE, calls |-> t.calls]
            ELSE IF tagsReply.kind # "tags"
            THEN [cache |-> c, result |-> NoResult, raised |-> TRUE,
                  calls |-> t.calls \o <<"tags">>]
            ELSE [cache |-> (image :> tagsReply.tags) @@ c, result |-> tagsReply.tags,
                  raised |-> FALSE, calls |-> t.calls \o <<"tags">>]

FetcherInit ==
    /\ cache = [o \in {"TagFetcher"} \cup Fetchers |-> EmptyDict]
    /\ fetches = [i \in Images |-> 0]
    /\ fetched = NoFetch

\* a call of fetch_versions (Updater.is_update_available makes one for every image
\* of versions.json)
FetchVersions(fetcher, image, token, tokenReply, tagsReply) ==
    LET o == CacheOwner(fetcher)
        r == fetch_versions(cache[o], image, token, tokenReply, tagsReply)
        got == ~r.raised /\ r.calls # <<>>
    IN /\ got => fetches[image] < MaxFetches
       /\ cache' = [cache EXCEPT ![o] = r.cache]
       /\ fetches' = IF got THEN [fetches EXCEPT ![image] = @ + 1] ELSE fetches
       /\ fetched' = [fetcher |-> fetcher, image |-> image, result |-> r.result,
                      raised |-> r.raised, calls |-> r.calls]
       /\ UNCHANGED <<supervisorVars, wifiVars>>

----------------------------------------------------------------------------
(* class WPASupplicant (core/services/wifi/wpa_supplicant.py) *)

Commands == {"PING", "STATUS", "SCAN", "SCAN_RESULTS"}
\* bytes: the UTF-8 encoding of a text, or a sequence that is no valid UTF-8
Encode(text) == <<"utf-8", text>>
Raw(hex) == <<"raw", hex>>
\* bytes.decode("utf-8") raises UnicodeDecodeError on a sequence that is not valid
Decode(bytes) ==
    IF bytes[1] = "utf-8"
    THEN [raised |-> FALSE, text |-> bytes[2]]
    ELSE [raised |-> TRUE, text |-> "'utf-8' codec can't decode byte"]
\* what recvfrom may return
Replies == {Encode("PONG"), Encode("OK"), Encode("FAIL"), Encode("UNKNOWN COMMAND"),
            Encode("wpa_state=COMPLETED"), Encode(""), Raw("ff")}
SendErrors == {"Broken pipe", "Connection refused"}
RecvErrors == {"timed out", "Connection reset by peer"}
NoBytes == <<>>
NoSend == [command |-> None, data |-> NoBytes, ok |-> FALSE, raised |-> FALSE,
           send |-> "none", recv |-> "none", received |-> NoBytes]

\* line 12: verbose is an attribute of the class and nothing sets it
verbose == TRUE

\* lines 43 to 63.  s is self.sock; sendErr and recvErr are None when send and
\* recvfrom return, else the text of the exception they raise; reply is what
\* recvfrom returns.  send and recv say whether the call was made and how it ended.
send_command(s, command, sendErr, recvErr, reply) ==
    LET answer(data, ok, send, recv, received) ==
            [command |-> command, data |-> data, ok |-> ok, raised |-> FALSE,
             send |-> send, recv |-> recv, received |-> received]
    IN IF s = None
       THEN answer(Encode(""), FALSE, "none", "none", NoBytes)
       ELSE IF s # "connected"
       THEN answer(Encode("Transport endpoint is not connected"), FALSE, "failed",
                   "none", NoBytes)
       ELSE IF sendErr # None
       THEN answer(Encode(sendErr), FALSE, "failed", "none", NoBytes)
       ELSE IF recvErr # None
       THEN answer(Encode(recvErr), FALSE, "ok", "failed", NoBytes)
       ELSE IF verbose /\ Decode(reply).raised
       THEN answer(Encode(Decode(reply).text), FALSE, "ok", "ok", reply)
       ELSE answer(reply, TRUE, "ok", "ok", reply)

WifiInit ==
    /\ sock = None
    /\ sent = NoSend

\* lines 21 to 41: the socket is made, then connected; connect may raise
Run(connectOk) ==
    /\ sock' = IF connectOk THEN "connected" ELSE "unconnected"
    /\ UNCHANGED sent
    /\ UNCHANGED <<supervisorVars, fetcherVars>>

SendCommand(command, sendErr, recvErr, reply) ==
    /\ sent' = send_command(sock, command, sendErr, recvErr, reply)
    /\ UNCHANGED sock
    /\ UNCHANGED <<supervisorVars, fetcherVars>>

UtilInit == FetcherInit /\ WifiInit

----------------------------------------------------------------------------
(* class Service, from the specification *)

Service(config) ==
    [enabled |-> config.enabled, starts |-> 0, observed |-> "Stopped",
     container |-> None, version |-> config.tag]

ServiceEnable(svc) == [svc EXCEPT !.enabled = TRUE]

ServiceDisable(svc) == [svc EXCEPT !.enabled = FALSE]

ServiceSetVersion(svc, version) == [svc EXCEPT !.version = version]

ServiceGetStatus(svc) ==
    [desired |-> svc.enabled, observed |-> svc.observed, failed_starts |-> svc.starts]

\* the counter is left as it is
ObservedRunning_NoReset(svc) == svc

\* step 3: Running is observed for an Enabled service
ObservedRunning(svc) == [svc EXCEPT !.starts = 0]

\* One reconcile step for one service (section 4.2, steps 1 to 4).  rt is the
\* state of its container; statusOk and callOk say whether the adapter's status
\* call and its start or stop call return or raise.
ServiceUpdate(name, svc, rt, statusOk, callOk) ==
    IF ~statusOk
    THEN [svc |-> svc, rt |-> rt, calls |-> <<"status">>, raised |-> TRUE]
    ELSE LET seen == [svc EXCEPT !.observed = rt] IN
         IF ~seen.enabled /\ rt # "Stopped"
         THEN [svc |-> seen,
               rt |-> IF callOk THEN "Stopped" ELSE rt,
               calls |-> <<"status", "stop">>, raised |-> ~callOk]
         ELSE IF seen.enabled /\ rt = "Running"
         THEN [svc |-> ObservedRunning(seen), rt |-> rt,
               calls |-> <<"status">>, raised |-> FALSE]
         ELSE IF seen.enabled /\ rt \in {"Stopped", "Failed"}
         THEN [svc |-> [seen EXCEPT !.starts = @ + 1,
                                    !.container = IF callOk THEN ContainerOf(name) ELSE @],
               rt |-> IF callOk THEN "Starting" ELSE rt,
               calls |-> <<"status", "start:" \o seen.version>>, raised |-> ~callOk]
         ELSE [svc |-> seen, rt |-> rt, calls |-> <<"status">>, raised |-> FALSE]

\* Service.restart, get_top, get_logs: one adapter call on the container; restart
\* returns the adapter's payload
ServiceRestart(svc, rt, callOk, payload) ==
    IF svc.container = None \/ ~callOk
    THEN [rt |-> rt, calls |-> <<"restart">>, raised |-> TRUE, payload |-> None]
    ELSE [rt |-> "Starting", calls |-> <<"restart">>, raised |-> FALSE,
          payload |-> payload]

ServiceQuery(fn, svc, callOk) ==
    [calls |-> <<fn>>, raised |-> svc.container = None \/ ~callOk]

----------------------------------------------------------------------------
(* class Supervisor *)

\* a step's record: the operation, the name it was given, the response's status (0:
\* none), whether an exception left the handler, the calls made on the adapter and on
\* the bridge process, and how many services were seen (the loop: the position of
\* the service in the pass; get_status: the entries returned)
\* and, for the handlers that answer with data, the response's body
Replied(op, name, status, raised, calls, seen, body) ==
    [op |-> op, name |-> name, status |-> status, raised |-> raised,
     calls |-> calls, seen |-> seen, body |-> body]

\* a response whose body is not data ("ok", an error text, or no response at all)
NoBody == <<>>

Did(op, name, status, raised, calls, seen) ==
    Replied(op, name, status, raised, calls, seen, NoBody)

\* web.json_response(data): the body is data serialised as JSON
JsonResponse(data) == <<"application/json", data>>

\* update_settings is a TODO: it writes nothing and cannot fail
update_settings(svcs) == svcs

\* enable flips the flag instead of setting it
enable_Toggles(svcs, name) ==
    IF name = None \/ name \notin DOMAIN svcs
    THEN [services |-> svcs, status |-> 404]
    ELSE [services |-> update_settings([svcs EXCEPT ![name].enabled = ~@]),
          status |-> 200]

\* an unknown name is registered instead of refused
enable_Registers(svcs, name) ==
    IF name = None
    THEN [services |-> svcs, status |-> 404]
    ELSE IF name \notin DOMAIN svcs
    THEN [services |-> (name :> Service([enabled |-> TRUE, tag |-> "v1"])) @@ svcs,
          status |-> 200]
    ELSE [services |-> update_settings([svcs EXCEPT ![name] = ServiceEnable(@)]),
          status |-> 200]

\* enable resets the failure counter as well
enable_ResetsCounter(svcs, name) ==
    IF name = None \/ name \notin DOMAIN svcs
    THEN [services |-> svcs, status |-> 404]
    ELSE [services |-> update_settings(
                          [svcs EXCEPT ![name] = [ServiceEnable(@) EXCEPT !.starts = 0]]),
          status |-> 200]

enable(svcs, name) ==
    IF name = None \/ name \notin DOMAIN svcs
    THEN [services |-> svcs, status |-> 404]
    ELSE [services |-> update_settings([svcs EXCEPT ![name] = ServiceEnable(@)]),
          status |-> 200]

\* disable pasted from enable with the call left as it was
disable_CallsEnable(svcs, name) ==
    IF name = None \/ name \notin DOMAIN svcs
    THEN [services |-> svcs, status |-> 404]
    ELSE [services |-> update_settings([svcs EXCEPT ![name] = ServiceEnable(@)]),
          status |-> 200]

disable(svcs, name) ==
    IF name = None \/ name \notin DOMAIN svcs
    THEN [services |-> svcs, status |-> 404]
    ELSE [services |-> update_settings([svcs EXCEPT ![name] = ServiceDisable(@)]),
          status |-> 200]

\* the service is enabled as well
setversion_AlsoEnables(svcs, name, version) ==
    IF name = None \/ name \notin DOMAIN svcs
    THEN [services |-> svcs, status |-> 404]
    ELSE [services |-> [svcs EXCEPT
                           ![name] = ServiceEnable(ServiceSetVersion(@, version))],
          status |-> 200]

setversion(svcs, name, version) ==
    IF name = None \/ name \notin DOMAIN svcs
    THEN [services |-> svcs, status |-> 404]
    ELSE [services |-> [svcs EXCEPT ![name] = ServiceSetVersion(@, version)],
          status |-> 200]

\* __init__: one Service per entry of dockers.json, the session absent
Registry(keys, config) == [n \in keys |-> Service(config[n])]

Configs(keys) == [keys -> [enabled : BOOLEAN, tag : {"v1"}]]

InitWith(keys) ==
    /\ \E config \in Configs(keys) : services = Registry(keys, config)
    /\ runtime = [n \in keys |-> "Stopped"]
    /\ ttyd_session = NoSession
    /\ procs = {}
    /\ idx = 0
    /\ attaching = Idle
    /\ last = Did("init", None, 0, FALSE, <<>>, 0)
    /\ waiting = NotWaiting
    /\ UtilInit

Init == InitWith({"a"})

\* as Free, were handlers served while the loop's thread is inside a blocking call
Free_OtherThread == idx = 0 /\ attaching = Idle

\* the event loop is free for a handler: the loop sleeps in asyncio.sleep, no attach
\* is under way and the thread is in no blocking call
Free == idx = 0 /\ attaching = Idle /\ waiting = NotWaiting

\* a handler that makes a blocking call runs from a free event loop, call and return
\* in one step, or returns from the call the thread is inside
Returns(op, name) ==
    /\ idx = 0 /\ attaching = Idle
    /\ waiting \in {NotWaiting, [op |-> op, name |-> name]}
    /\ waiting' = NotWaiting

Enable(name) ==
    /\ Free
    /\ LET r == enable(services, name) IN
       /\ services' = r.services
       /\ last' = Did("enable", name, r.status, FALSE, <<>>, 0)
    /\ UNCHANGED <<runtime, ttyd_session, procs, idx, attaching, waiting>>
    /\ UNCHANGED utilVars

Disable(name) ==
    /\ Free
    /\ LET r == disable(services, name) IN
       /\ services' = r.services
       /\ last' = Did("disable", name, r.status, FALSE, <<>>, 0)
    /\ UNCHANGED <<runtime, ttyd_session, procs, idx, attaching, waiting>>
    /\ UNCHANGED utilVars

SetVersion(name, version) ==
    /\ Free
    /\ LET r == setversion(services, name, version) IN
       /\ services' = r.services
       /\ last' = Did("setversion", name, r.status, FALSE, <<>>, 0)
    /\ UNCHANGED <<runtime, ttyd_session, procs, idx, attaching, waiting>>
    /\ UNCHANGED utilVars

\* a failed restart request is made a second time
restart_Retries(svcs, rts, name, callOk, payload) ==
    IF name \notin DOMAIN svcs
    THEN [runtime |-> rts, status |-> 404, raised |-> FALSE, calls |-> <<>>,
          body |-> NoBody]
    ELSE LET r1 == ServiceRestart(svcs[name], rts[name], callOk, payload)
             r == IF r1.raised
                  THEN ServiceRestart(svcs[name], rts[name], TRUE, payload)
                  ELSE r1
         IN
         [runtime |-> [rts EXCEPT ![name] = r.rt],
          status |-> IF r.raised THEN 500 ELSE 200, raised |-> r.raised,
          calls |-> IF r1.raised THEN r1.calls \o r.calls ELSE r.calls,
          body |-> IF r.raised THEN NoBody ELSE JsonResponse(r.payload)]

\* restart, top, get_logs: the name is looked up, then one adapter call is made and
\* its result (or its exception) goes to the caller
restart(svcs, rts, name, callOk, payload) ==
    IF name \notin DOMAIN svcs
    THEN [runtime |-> rts, status |-> 404, raised |-> FALSE, calls |-> <<>>,
          body |-> NoBody]
    ELSE LET r == ServiceRestart(svcs[name], rts[name], callOk, payload) IN
         [runtime |-> [rts EXCEPT ![name] = r.rt],
          status |-> IF r.raised THEN 500 ELSE 200, raised |-> r.raised, calls |-> r.calls,
          body |-> IF r.raised THEN NoBody ELSE JsonResponse(r.payload)]

top(svcs, name, callOk) ==
    IF name \notin DOMAIN svcs
    THEN [status |-> 404, raised |-> FALSE, calls |-> <<>>]
    ELSE LET r == ServiceQuery("top", svcs[name], callOk) IN
         [status |-> IF r.raised THEN 500 ELSE 200, raised |-> r.raised, calls |-> r.calls]

get_logs(svcs, name, callOk) ==
    IF name \notin DOMAIN svcs
    THEN [status |-> 404, raised |-> FALSE, calls |-> <<>>]
    ELSE LET r == ServiceQuery("logs", svcs[name], callOk) IN
         [status |-> IF r.raised THEN 500 ELSE 200, raised |-> r.raised, calls |-> r.calls]

\* only the enabled services are reported
get_status_EnabledOnly(svcs) ==
    [n \in {m \in DOMAIN svcs : svcs[m].enabled} |-> ServiceGetStatus(svcs[n])]

get_status(svcs) == [n \in DOMAIN svcs |-> ServiceGetStatus(svcs[n])]

Restart(name) ==
    /\ Returns("restart", name)
    /\ \E callOk \in BOOLEAN, payload \in Payloads :
         LET r == restart(services, runtime, name, callOk, payload) IN
         /\ runtime' = r.runtime
         /\ last' = Replied("restart", name, r.status, r.raised, r.calls, 0, r.body)
    /\ UNCHANGED <<services, ttyd_session, procs, idx, attaching>>
    /\ UNCHANGED utilVars

Top(name) ==
    /\ Returns("top", name)
    /\ \E callOk \in BOOLEAN :
         LET r == top(services, name, callOk) IN
         last' = Did("top", name, r.status, r.raised, r.calls, 0)
    /\ UNCHANGED <<services, runtime, ttyd_session, procs, idx, attaching>>
    /\ UNCHANGED utilVars

GetLogs(name) ==
    /\ Returns("get_logs", name)
    /\ \E callOk \in BOOLEAN :
         LET r == get_logs(services, name, callOk) IN
         last' = Did("get_logs", name, r.status, r.raised, r.calls, 0)
    /\ UNCHANGED <<services, runtime, ttyd_session, procs, idx, attaching>>
    /\ UNCHANGED utilVars

GetStatus ==
    /\ Free
    /\ last' = Replied("get_status", None, 200, FALSE, <<>>,
                        Cardinality(DOMAIN get_status(services)),
                        JsonResponse(get_status(services)))
    /\ UNCHANGED <<services, runtime, ttyd_session, procs, idx, attaching, waiting>>
    /\ UNCHANGED utilVars

----------------------------------------------------------------------------
(* attach: the session *)

\* the handle Popen returns: one no live process has and the old session did not have
NewPid(live, old) ==
    CHOOSE p \in 1..MaxPid :
        /\ p \notin live
        /\ p # old.pid
        /\ \A q \in 1..MaxPid : (q \notin live /\ q # old.pid) => p <= q

\* the old session is left running
Terminated_Skipped(session, live) == live

\* terminate() and wait() on the session there is: the process is gone on return
Terminated(session, live) ==
    IF session # NoSession THEN live \ {session.pid} ELSE live

\* the old session is terminated before the name is checked
attach_TerminateFirst(svcs, session, live, name) ==
    IF name = None \/ name \notin DOMAIN svcs
    THEN [procs |-> Terminated(session, live), attaching |-> Idle, status |-> 404,
          calls |-> <<>>]
    ELSE [procs |-> Terminated(session, live), attaching |-> name, status |-> 0,
          calls |-> IF session # NoSession THEN <<"terminate", "wait">> ELSE <<>>]

\* lines 95 to 100: the name check, then the session there is gets terminate() and
\* wait(); ttyd_session still names the old Popen
attach(svcs, session, live, name) ==
    IF name = None \/ name \notin DOMAIN svcs
    THEN [procs |-> live, attaching |-> Idle, status |-> 404, calls |-> <<>>]
    ELSE [procs |-> Terminated(session, live), attaching |-> name, status |-> 0,
          calls |-> IF session # NoSession THEN <<"terminate", "wait">> ELSE <<>>]

\* the Popen is not kept in ttyd_session
spawn_NotKept(svcs, session, live, name) ==
    LET c == svcs[name].container IN
    IF c = None
    THEN [session |-> session, procs |-> live, status |-> 500, raised |-> TRUE,
          calls |-> <<>>]
    ELSE LET p == NewPid(live, session) IN
         [session |-> session, procs |-> live \cup {p},
          status |-> 200, raised |-> FALSE, calls |-> <<"spawn">>]

\* lines 102 to 105: the container's id is read (an AttributeError when the service
\* has no container), the bridge is started and kept as the session
spawn(svcs, session, live, name) ==
    LET c == svcs[name].container IN
    IF c = None
    THEN [session |-> session, procs |-> live, status |-> 500, raised |-> TRUE,
          calls |-> <<>>]
    ELSE LET p == NewPid(live, session) IN
         [session |-> [pid |-> p, container |-> c], procs |-> live \cup {p},
          status |-> 200, raised |-> FALSE, calls |-> <<"spawn">>]

Attach(name) ==
    /\ Returns("attach", name)
    /\ LET r == attach(services, ttyd_session, procs, name) IN
       /\ procs' = r.procs
       /\ attaching' = r.attaching
       /\ last' = Did("attach", name, r.status, FALSE, r.calls, 0)
    /\ UNCHANGED <<services, runtime, ttyd_session, idx>>
    /\ UNCHANGED utilVars

AttachSpawn ==
    /\ attaching # Idle
    /\ LET r == spawn(services, ttyd_session, procs, attaching) IN
       /\ ttyd_session' = r.session
       /\ procs' = r.procs
       /\ last' = Did("attach", attaching, r.status, r.raised, r.calls, 0)
    /\ attaching' = Idle
    /\ UNCHANGED <<services, runtime, idx, waiting>>
    /\ UNCHANGED utilVars

----------------------------------------------------------------------------
(* do_maintenance *)

\* the service is disabled only when the counter is exactly one above the threshold
ShouldDisable_Exactly(svc) == svc.starts = 11 /\ svc.enabled

\* the threshold compared with >= instead of >
ShouldDisable_OffByOne(svc) == svc.starts >= 10 /\ svc.enabled

\* line 162
ShouldDisable(svc) == svc.starts > 10 /\ svc.enabled

\* a service found running is enabled by the loop
MaintainService_EnablesRunning(svcs, name, u) ==
    LET updated == [svcs EXCEPT ![name] = u.svc] IN
    IF ~u.raised /\ ShouldDisable(u.svc)
    THEN disable(updated, name).services
    ELSE IF ~u.raised /\ u.svc.observed = "Running"
    THEN enable(updated, name).services
    ELSE updated

\* lines 160 to 165 for one service: u is what service.update() did; when it raised,
\* the rest of the body is skipped
MaintainService(svcs, name, u) ==
    LET updated == [svcs EXCEPT ![name] = u.svc] IN
    IF ~u.raised /\ ShouldDisable(u.svc)
    THEN disable(updated, name).services
    ELSE updated

\* only enabled services are updated
CallUpdate_SkipDisabled(svcs, rts, name, statusOk, callOk) ==
    IF svcs[name].enabled
    THEN ServiceUpdate(name, svcs[name], rts[name], statusOk, callOk)
    ELSE [svc |-> svcs[name], rt |-> rts[name], calls |-> <<>>, raised |-> FALSE]

\* a status call that fails is taken as the container being stopped
CallUpdate_TimeoutAsStopped(svcs, rts, name, statusOk, callOk) ==
    IF statusOk
    THEN ServiceUpdate(name, svcs[name], rts[name], statusOk, callOk)
    ELSE [svc |-> [svcs[name] EXCEPT !.observed = "Stopped"], rt |-> rts[name],
          calls |-> <<"status">>, raised |-> TRUE]

\* the service is updated as if it were enabled
CallUpdate_IgnoresFlag(svcs, rts, name, statusOk, callOk) ==
    LET u == ServiceUpdate(name, [svcs[name] EXCEPT !.enabled = TRUE], rts[name],
                           statusOk, callOk)
    IN [u EXCEPT !.svc.enabled = svcs[name].enabled]

\* line 160: service.update() on the service the loop is at
CallUpdate(svcs, rts, name, statusOk, callOk) ==
    ServiceUpdate(name, svcs[name], rts[name], statusOk, callOk)

\* the threshold is checked before service.update() instead of after it
MaintainStep_CheckFirst(svcs, rts, name, statusOk, callOk) ==
    LET checked == IF ShouldDisable(svcs[name])
                   THEN disable(svcs, name).services
                   ELSE svcs
        u == CallUpdate(checked, rts, name, statusOk, callOk)
    IN [services |-> [checked EXCEPT ![name] = u.svc], rt |-> u.rt,
        starts |-> u.svc.starts, calls |-> u.calls, raised |-> u.raised]

\* lines 160 to 165 for the service the loop is at: update, then the check
MaintainStep(svcs, rts, name, statusOk, callOk) ==
    LET u == CallUpdate(svcs, rts, name, statusOk, callOk) IN
    [services |-> MaintainService(svcs, name, u), rt |-> u.rt,
     starts |-> u.svc.starts, calls |-> u.calls, raised |-> u.raised]

\* the exception is not caught: the task ends, the loop is at no position
AfterService_Propagates(i, order, raised) ==
    IF raised THEN -1 ELSE IF i = Len(order) THEN 0 ELSE i + 1

\* where the loop goes after service i of order: an exception leaves the for loop
\* (the except clause is around it) and the loop sleeps, as it does after the last
AfterService(i, order, raised) ==
    IF raised \/ i = Len(order) THEN 0 ELSE i + 1

\* the loop's step for the service it is at, the adapter's status call and its
\* start or stop call returning (TRUE) or raising (FALSE)
Maintain(statusOk, callOk) ==
    /\ attaching = Idle
    /\ idx \in 0..Len(Keys(services))
    /\ LET order == Keys(services)
           i == IF idx = 0 THEN 1 ELSE idx
           name == order[i]
           m == MaintainStep(services, runtime, name, statusOk, callOk)
       IN   /\ waiting \in {NotWaiting, [op |-> "tick", name |-> name]}
            /\ waiting' = NotWaiting
            /\ m.starts <= StartsCap
            /\ services' = m.services
            /\ runtime' = [runtime EXCEPT ![name] = m.rt]
            /\ idx' = AfterService(i, order, m.raised)
            /\ last' = Did("tick", name, 0, m.raised, m.calls, i)
    /\ UNCHANGED <<ttyd_session, procs, attaching>>
    /\ UNCHANGED utilVars

do_maintenance == \E statusOk \in BOOLEAN, callOk \in BOOLEAN : Maintain(statusOk, callOk)

----------------------------------------------------------------------------
(* Outside the event loop *)

\* the container of name goes to state s by itself
ContainerBecomes(name, s) ==
    /\ name \in DOMAIN runtime
    /\ \/ runtime[name] = "Starting" /\ s \in {"Running", "Failed"}
       \/ runtime[name] = "Running" /\ s = "Failed"
    /\ runtime' = [runtime EXCEPT ![name] = s]
    /\ last' = Did("env", name, 0, FALSE, <<>>, 0)
    /\ UNCHANGED <<services, ttyd_session, procs, idx, attaching, waiting>>
    /\ UNCHANGED utilVars

\* a container that is starting comes up or fails; one that runs may fail
ContainerChanges(name) == \E s \in {"Running", "Failed"} : ContainerBecomes(name, s)

\* the bridge process exits by itself
BridgeExits ==
    /\ procs # {}
    /\ \E p \in procs : procs' = procs \ {p}
    /\ last' = Did("env", None, 0, FALSE, <<>>, 0)
    /\ UNCHANGED <<services, runtime, ttyd_session, idx, attaching, waiting>>
    /\ UNCHANGED utilVars

\* The thread enters a blocking call and has not returned from it: service.update()
\* in the loop (line 160), service.restart(), get_top() and get_logs() in their
\* handlers (lines 145, 134, 195), ttyd_session.wait() in attach (line 99).  None of
\* them is awaited, so the event loop runs nothing else until the call returns.
BeginCall(op, name) ==
    /\ waiting = NotWaiting /\ attaching = Idle
    /\ name \in DOMAIN services
    /\ idx \in 0..Len(Keys(services))
    /\ IF op = "tick"
       THEN name = Keys(services)[IF idx = 0 THEN 1 ELSE idx]
       ELSE idx = 0
    /\ op = "attach" => ttyd_session # NoSession
    /\ waiting' = [op |-> op, name |-> name]
    /\ last' = Did("call", name, 0, FALSE, <<>>, 0)
    /\ UNCHANGED <<services, runtime, ttyd_session, procs, idx, attaching>>
    /\ UNCHANGED utilVars

BlockingOps == {"tick", "restart", "top", "get_logs", "attach"}

----------------------------------------------------------------------------
(* Specifications *)

\* one registered service, every operation
Next ==
    \/ \E name \in CallNames : Enable(name)
    \/ \E name \in CallNames : Disable(name)
    \/ \E name \in CallNames, version \in Tags : SetVersion(name, version)
    \/ \E name \in CallNames : Restart(name)
    \/ \E name \in CallNames : Top(name)
    \/ \E name \in CallNames : GetLogs(name)
    \/ GetStatus
    \/ \E name \in CallNames : Attach(name)
    \/ AttachSpawn
    \/ do_maintenance
    \/ \E name \in CallNames : ContainerChanges(name)
    \/ BridgeExits

Spec == Init /\ [][Next]_vars

\* two registered services: the loop and the operations that change what it does
InitPair == InitWith({"a", "b"})

NextPair ==
    \/ \E name \in CallNames : Enable(name)
    \/ \E name \in CallNames : Disable(name)
    \/ \E name \in CallNames : Restart(name)
    \/ GetStatus
    \/ do_maintenance
    \/ \E name \in CallNames : ContainerChanges(name)

SpecPair == InitPair /\ [][NextPair]_vars

\* one registered service, with the blocking calls in two steps
NextBlocking ==
    \/ Next
    \/ \E op \in BlockingOps, name \in CallNames : BeginCall(op, name)

SpecBlocking == Init /\ [][NextBlocking]_vars

\* two registered services, the loop and the attach handler
NextAttach ==
    \/ \E name \in CallNames : Attach(name)
    \/ AttachSpawn
    \/ do_maintenance
    \/ \E name \in CallNames : ContainerChanges(name)
    \/ BridgeExits

SpecAttach == InitPair /\ [][NextAttach]_vars

\* the TagFetcher alone: calls of fetch_versions from two instances
NextFetch ==
    \E fetcher \in Fetchers, image \in Images, token \in TokenArgs,
       tokenReply \in TokenReplies, tagsReply \in TagsReplies :
        FetchVersions(fetcher, image, token, tokenReply, tagsReply)

SpecFetch == Init /\ [][NextFetch]_vars

\* the WPASupplicant alone: run() and send_command
NextWifi ==
    \/ \E connectOk \in BOOLEAN : Run(connectOk)
    \/ \E command \in Commands, sendErr \in SendErrors \cup {None},
          recvErr \in RecvErrors \cup {None}, reply \in Replies :
           SendCommand(command, sendErr, recvErr, reply)

SpecWifi == Init /\ [][NextWifi]_vars

\* One registered service that the operator leaves Enabled, with an adapter whose
\* calls all return and whose started containers come up.  The run begins in any
\* state of the Enabled service with its counter not above the threshold: the
\* container in any state, the state observed last any, the container handle absent
\* only if no start request has succeeded yet.
InitHealthy ==
    /\ \E k \in 0..10, rt \in States, obs \in States, c \in {None, ContainerOf("a")} :
         /\ c = None => (rt = "Stopped" /\ obs = "Stopped")
         /\ services = [n \in {"a"} |->
                           [enabled |-> TRUE, starts |-> k, observed |-> obs,
                            container |-> c, version |-> "v1"]]
         /\ runtime = [n \in {"a"} |-> rt]
    /\ ttyd_session = NoSession
    /\ procs = {}
    /\ idx = 0
    /\ attaching = Idle
    /\ last = Did("init", None, 0, FALSE, <<>>, 0)
    /\ waiting = NotWaiting
    /\ UtilInit

ComesUp == \E name \in CallNames : ContainerBecomes(name, "Running")

NextHealthy ==
    \/ GetStatus
    \/ Maintain(TRUE, TRUE)
    \/ ComesUp

\* the loop takes its next step after every sleep, and a container whose start was
\* performed comes up
SpecHealthy ==
    InitHealthy /\ [][NextHealthy]_vars
        /\ WF_vars(Maintain(TRUE, TRUE)) /\ WF_vars(ComesUp)

----------------------------------------------------------------------------
(* Properties *)

IsStart(call) == call \in {"start:" \o t : t \in Tags}
HasCall(calls, call) == \E i \in DOMAIN calls : calls[i] = call
HasStart(calls) == \E i \in DOMAIN calls : IsStart(calls[i])

\* the step taken is the loop's step for service n, and service.update() returned
TickDone(n) == last'.op = "tick" /\ last'.name = n /\ ~last'.raised

C2_DisabledStaysDisabled ==
    [][\A n \in DOMAIN services :
         (~services[n].enabled /\ ~(last'.op = "enable" /\ last'.name = n))
         => /\ ~services'[n].enabled
            /\ services'[n].starts = services[n].starts
            /\ (last'.op = "tick" /\ last'.name = n => ~HasStart(last'.calls))]_vars

\* C2 witness: a later reconcile step for an auto-disabled service: no start was
\* requested and the counter is still 11
C2_Witness ==
    /\ last.op = "tick" /\ last.name = "a" /\ ~HasStart(last.calls)
    /\ services["a"].starts = 11
    /\ ~services["a"].enabled

\* C3: a reconcile tick in which the adapter call for one service raises still
\* reconciles every other registered service: when the loop goes back to sleep, its
\* pass has reached the last registered service.
C3_EveryServiceReconciled ==
    (idx = 0 /\ last.op = "tick") => last.seen = Len(Keys(services))

NamedOps == {"enable", "disable", "setversion", "restart", "attach", "top", "get_logs"}

\* C4: enable, disable, setversion, restart, attach, top and get_logs with a name that
\* is no key of the registry (no name included) answer 404, make no adapter call and
\* no call on the session's process, and change no Service, not the session
\* reference, not the live bridge processes and no container.
C4_UnknownNameNotFound ==
    [][(last'.op \in NamedOps /\ last'.name \notin DOMAIN services)
         => /\ last'.status = 404
            /\ last'.calls = <<>>
            /\ ~last'.raised
            /\ UNCHANGED <<services, runtime, ttyd_session, procs, idx, attaching>>]_vars

\* C4 witness: attach without a name was answered 404 while a session is live
C4_Witness ==
    /\ last.op = "attach" /\ last.name = None /\ last.status = 404
    /\ ttyd_session # NoSession
    /\ ttyd_session.pid \in procs

\* C5: at most one bridge process is alive, in every state, the state between the
\* termination of the old session and the start of the new one included.
C5_AtMostOneSession == Cardinality(procs) <= 1

\* C5 witness: a second attach has replaced the first session
C5_Witness ==
    /\ last.op = "attach" /\ last.status = 200
    /\ ttyd_session.pid = 2
    /\ procs = {2}

\* C6: when attach starts the bridge for a known service, the process of the session
\* there was is no longer alive (it was terminated and awaited first), and after the
\* successful attach ttyd_session is the new process, alive, bound to the container
\* the service has.
C6_TerminateThenSpawn ==
    [][(last'.op = "attach" /\ last'.status = 200)
         => /\ ttyd_session.pid \notin procs
            /\ ttyd_session'.pid # ttyd_session.pid
            /\ ttyd_session'.pid \notin procs
            /\ procs' = procs \cup {ttyd_session'.pid}
            /\ ttyd_session'.container = services[last'.name].container
            /\ ttyd_session'.container # None]_vars

\* C6 witness: attach to the same service while its session was active: the old
\* process is gone and the session is the new one
C6_Witness ==
    /\ last.op = "attach" /\ last.status = 200 /\ last.name = "a"
    /\ ttyd_session = [pid |-> 2, container |-> ContainerOf("a")]
    /\ 1 \notin procs /\ 2 \in procs

\* the step taken is the loop's step for service n and its status call returned
\* Running
ObservedRunningIn(n) ==
    /\ last'.op = "tick" /\ last'.name = n
    /\ ~(last'.raised /\ last'.calls = <<"status">>)
    /\ runtime[n] = "Running"
    /\ services'[n].observed = "Running"

C8_StopWithinOneTick ==
    /\ (last.op = "disable" => last.calls = <<>>)
    /\ (idx = 0 /\ last.op = "tick")
         => \A n \in DOMAIN services :
              (~services[n].enabled /\ runtime[n] = "Running")
              => (last.name = n /\ (HasCall(last.calls, "stop") \/ last.raised))

\* C9 as claimed: in every reachable state a Disabled service has no running
\* container.
C9_DisabledNotRunning ==
    \A n \in DOMAIN services : ~services[n].enabled => runtime[n] # "Running"

\* C9 as amended: a Disabled service has no running container right after a
\* reconcile step for it whose adapter calls returned (the container is Stopped
\* then); between a disable or restart call and that step the container may run.
C9_DisabledStoppedAfterStep ==
    [][\A n \in DOMAIN services :
         (TickDone(n) /\ ~services[n].enabled)
         => /\ runtime'[n] = "Stopped"
            /\ ~services'[n].enabled
            /\ (runtime[n] # "Stopped" => HasCall(last'.calls, "stop"))]_vars

\* C9 witness: the loop has just stopped the container of a Disabled service that it
\* had started before
C9_Witness ==
    /\ last.op = "tick" /\ last.name = "a" /\ ~last.raised
    /\ HasCall(last.calls, "stop")
    /\ ~services["a"].enabled
    /\ services["a"].observed = "Running"
    /\ runtime["a"] = "Stopped"

\* C10: enable and disable are idempotent: on any reachable registry and for every
\* registered name, a second call right after the first answers 200 like the first
\* and leaves the registry as the first left it.
C10_EnableDisableIdempotent ==
    \A n \in DOMAIN services :
        /\ enable(enable(services, n).services, n) = enable(services, n)
        /\ disable(disable(services, n).services, n) = disable(services, n)
        /\ enable(services, n).status = 200
        /\ disable(services, n).status = 200
        /\ (last.op = "enable" /\ last.name = n) => enable(services, n).services = services
        /\ (last.op = "disable" /\ last.name = n) => disable(services, n).services = services

\* C10 witness: enable was called on a disabled service with a failure history: it is
\* Enabled, and calling again changes nothing
C10_Witness ==
    /\ last.op = "enable" /\ last.name = "a" /\ last.status = 200
    /\ services["a"].enabled
    /\ services["a"].starts > 10

LifecycleOps == {"enable", "disable", "setversion", "get_status"}

\* C11: enable, disable, setversion and get_status are serialized with the loop's
\* step for a service: one of them takes effect only while the loop sleeps between
\* passes, never while the loop is inside service.update() for a service, and from
\* the start of that call to the end of the step nothing but the step itself changes
\* a Service record.
C11_LifecycleSerialized ==
    [][/\ last'.op \in LifecycleOps
            => (waiting = NotWaiting /\ idx = 0 /\ waiting' = NotWaiting /\ idx' = 0)
       /\ (waiting.op = "tick" /\ last'.op # "tick") => services' = services]_vars

\* C11 witness: the loop is inside service.update() for a service that an earlier
\* enable call enabled and an earlier step started
C11_Witness ==
    /\ waiting = [op |-> "tick", name |-> "a"]
    /\ services["a"].enabled
    /\ services["a"].starts > 0

\* the thread is inside an adapter call made by the loop or by restart, top or get_logs
AdapterCallOutstanding == waiting.op \in {"tick", "restart", "top", "get_logs"}

\* C12: enable, disable, setversion and get_status never wait on the container
\* runtime: they make no adapter call, and while an adapter call made by the loop or
\* by restart, top or get_logs has not returned, each of them can still be served.
C12_LifecycleNeverWaits ==
    /\ last.op \in LifecycleOps => last.calls = <<>>
    /\ AdapterCallOutstanding
         => \A n \in DOMAIN services :
               /\ ENABLED Enable(n)
               /\ ENABLED Disable(n)
               /\ \E t \in Tags : ENABLED SetVersion(n, t)
               /\ ENABLED GetStatus

\* restart, top, get_logs or attach is waiting: on the adapter, on the previous
\* session's termination (wait(), line 99) or in the pause that follows it (line 100)
HandlerWaiting ==
    \/ waiting.op \in {"restart", "top", "get_logs", "attach"}
    \/ attaching # Idle /\ HasCall(last.calls, "wait")

\* C13: while restart, top, get_logs or attach waits on the adapter or on the end of
\* the previous session, the loop's step and the lifecycle calls can still proceed.
C13_WaitingHandlerExcludesNothing ==
    HandlerWaiting
        => /\ ENABLED do_maintenance
           /\ \A n \in DOMAIN services : ENABLED Enable(n) /\ ENABLED Disable(n)
           /\ ENABLED GetStatus

\* C14: the loop never ends and lets no adapter error out: it is always at a position
\* of its body, a step in which service.update() raised leaves it at the sleep
\* before the next pass, and whenever no handler holds the thread its next step can
\* be taken.
C14_LoopSurvivesErrors ==
    /\ idx \in 0..Len(Keys(services))
    /\ (last.op = "tick" /\ last.raised) => idx = 0
    /\ (attaching = Idle /\ waiting.op \in {"none", "tick"}) => ENABLED do_maintenance

\* C14 witness: the start request for a raised in an earlier pass (its counter went
\* up and it has no container), that pass ended there, and a later pass has just
\* reconciled b
C14_Witness ==
    /\ services["a"].starts = 1 /\ services["a"].container = None
    /\ last.op = "tick" /\ last.name = "b" /\ ~last.raised

\* C15: attach on a registered service that has no container yet is refused as an
\* invalid state, a failure the handler returns rather than an exception it lets
\* out, and starts no bridge process.
C15_NoContainerInvalidState ==
    [][(attaching # Idle /\ last'.op = "attach"
            /\ services[attaching].container = None)
        => /\ ~last'.raised
           /\ last'.status \notin {200, 500}
           /\ ~HasCall(last'.calls, "spawn")
           /\ procs' = procs]_vars

\* C16: setversion on a registered service changes that service's version tag and
\* nothing else: no adapter call is made, the runtime (a running container included),
\* the session and every other field of every Service stay as they were; no other
\* step changes a tag, and a start request carries the tag set last.
C16_SetVersionOnlyTag ==
    [][\A n \in DOMAIN services :
         /\ (last'.op = "setversion" /\ last'.name = n)
              => /\ \E t \in Tags : services' = [services EXCEPT ![n].version = t]
                 /\ last'.calls = <<>> /\ last'.status = 200 /\ ~last'.raised
                 /\ UNCHANGED <<runtime, ttyd_session, procs, idx, attaching, waiting>>
         /\ \A t \in Tags : setversion(services, n, t).services[n].version = t
         /\ last'.op # "setversion" => services'[n].version = services[n].version
         /\ (last'.op = "tick" /\ last'.name = n /\ HasStart(last'.calls))
              => HasCall(last'.calls, "start:" \o services[n].version)]_vars

\* C16 witness: the tag was set to v2 (the registry starts with v1), and a start
\* request of the loop, not the first one for the service, carries v2
C16_Witness ==
    /\ last.op = "tick" /\ last.name = "a"
    /\ HasCall(last.calls, "start:v2")
    /\ services["a"].starts > 1

\* C17: restart on a registered service makes exactly one restart request to the
\* adapter, whether it succeeds or fails; when the adapter answers, the response is
\* 200 with the adapter's payload as its JSON body; when the adapter fails, the
\* failure reaches the caller; the desired state and the failure counter (the whole
\* registry) stay as they were.
C17_RestartOnceAndPassThrough ==
    [][\A n \in DOMAIN services :
         /\ (last'.op = "restart" /\ last'.name = n)
              => /\ last'.calls = <<"restart">>
                 /\ services' = services
                 /\ IF last'.raised
                    THEN last'.status = 500 /\ last'.body = NoBody
                         /\ runtime' = runtime
                    ELSE last'.status = 200
                         /\ \E p \in Payloads : last'.body = JsonResponse(p)
         /\ \A p \in Payloads :
              LET r == restart(services, runtime, n, TRUE, p) IN
              ~r.raised => r.body = JsonResponse(p)]_vars

\* C17 witness: a restart of a started service returned the adapter's payload, with
\* the failure counter and the desired state as they were
C17_Witness ==
    /\ last.op = "restart" /\ last.name = "a" /\ last.status = 200
    /\ last.body = JsonResponse("p2")
    /\ last.calls = <<"restart">>
    /\ services["a"].starts = 2 /\ services["a"].enabled

\* the registry with no service
NoServices == [n \in {} |-> Service([enabled |-> FALSE, tag |-> "v1"])]

\* C18: get_status answers 200 with one entry per registered service and no other
\* (for the registry with no service, an empty mapping), each entry that service's
\* desired state, observed state and failure counter as they are at the call; it
\* raises nothing and changes nothing.
C18_StatusOfEveryService ==
    [][/\ last'.op = "get_status"
            => /\ last'.status = 200 /\ ~last'.raised /\ last'.calls = <<>>
               /\ last'.seen = Cardinality(DOMAIN services)
               /\ last'.body = JsonResponse(
                      [n \in DOMAIN services |->
                          [desired |-> services[n].enabled,
                           observed |-> services[n].observed,
                           failed_starts |-> services[n].starts]])
               /\ UNCHANGED <<services, runtime, ttyd_session, procs, idx, attaching,
                              waiting>>
       /\ DOMAIN get_status(NoServices) = {}]_vars

\* C18 witness: get_status has answered for two services whose entries differ: a is
\* disabled and stopped, b is enabled with a failed start counted
C18_Witness ==
    /\ last.op = "get_status" /\ last.seen = 2
    /\ last.body[2]["a"].desired = FALSE
    /\ last.body[2]["b"].desired = TRUE
    /\ last.body[2]["b"].failed_starts = 1

\* C20: an Enabled service whose adapter call errors in every pass of the loop is
\* auto-disabled after a bounded number of passes: a step for it in which the call
\* raised and after which its failure counter is above 10 leaves it Disabled.
C20_ErroringServiceAutoDisabled ==
    [][\A n \in DOMAIN services :
         (last'.op = "tick" /\ last'.name = n /\ last'.raised /\ services[n].enabled)
         => (services'[n].starts > 10 => ~services'[n].enabled)]_vars

\* C21: an enable call on an auto-disabled service gives control back to the
\* operator: when the loop's next step for it requests a start and the adapter
\* performs it, the service is still Enabled after the step, on its way to Running
\* with a counter of 0.
C21_ReEnableRestoresControl ==
    [][\A n \in DOMAIN services :
         (/\ last.op = "enable" /\ last.name = n
          /\ services[n].enabled /\ services[n].starts > 10
          /\ TickDone(n) /\ HasStart(last'.calls))
         => services'[n].enabled]_vars

\* C22: the loop's step for a service that is Disabled when the step is taken,
\* whoever disabled it, makes no start request (its adapter calls are the status
\* query and at most a stop request) and leaves the failure counter as it was,
\* whether or not an adapter call raises.
C22_NoStartForDisabled ==
    [][\A n \in DOMAIN services :
         (last'.op = "tick" /\ last'.name = n /\ ~services[n].enabled)
         => /\ \A i \in DOMAIN last'.calls : last'.calls[i] \in {"status", "stop"}
            /\ services'[n].starts = services[n].starts
            /\ runtime'[n] # runtime[n] => runtime'[n] = "Stopped"]_vars

\* C22 witness: the operator disabled a service with three failed starts whose
\* container had failed; the step for it requested a stop and the counter is still 3
C22_Witness ==
    /\ last.op = "tick" /\ last.name = "a" /\ last.calls = <<"status", "stop">>
    /\ ~services["a"].enabled
    /\ services["a"].starts = 3
    /\ services["a"].observed = "Failed"

\* C23: a service goes from Disabled to Enabled only in an enable call for it; the
\* loop never enables a service, and the only change a step of the loop makes to a
\* desired state is from Enabled to Disabled, for the service of that step, with its
\* counter above 10 after the step.
C23_OnlyEnableEnables ==
    [][\A n \in DOMAIN services :
         /\ (~services[n].enabled /\ services'[n].enabled)
              => (last'.op = "enable" /\ last'.name = n /\ last'.status = 200)
         /\ (last'.op = "tick" /\ services'[n].enabled # services[n].enabled)
              => /\ last'.name = n
                 /\ services[n].enabled /\ ~services'[n].enabled
                 /\ services'[n].starts > 10]_vars

\* C23 witness: a service that the loop auto-disabled was enabled again by an
\* enable call, and a later step of the loop found it starting and disabled it
C23_Witness ==
    /\ last.op = "tick" /\ last.name = "a" /\ last.calls = <<"status">>
    /\ ~services["a"].enabled
    /\ services["a"].starts = 12
    /\ services["a"].observed = "Starting"

\* C24: an enable or disable call on a registered service changes that service's
\* desired state and nothing else: it makes no adapter call, its counter, version,
\* observed state and container, the records of the other services, the runtime,
\* the session and the bridge processes are as before.  The second part applies the
\* handlers to a registry of two services.
C24_EnableDisableOnlyFlag ==
    [][\A n \in DOMAIN services :
         /\ (last'.op \in {"enable", "disable"} /\ last'.name = n)
              => /\ services' = [services EXCEPT ![n].enabled = (last'.op = "enable")]
                 /\ last'.calls = <<>> /\ last'.status = 200
                 /\ UNCHANGED <<runtime, ttyd_session, procs, idx, attaching, waiting>>
         /\ LET two == [m \in {"a", "b"} |-> services[n]] IN
            \A m \in {"a", "b"} :
                /\ enable(two, m).services = [two EXCEPT ![m].enabled = TRUE]
                /\ disable(two, m).services = [two EXCEPT ![m].enabled = FALSE]]_vars

\* C24 witness: enable was called on a service with five failed starts whose
\* container has failed, while a session is live: all of that is still so
C24_Witness ==
    /\ last.op = "enable" /\ last.name = "a" /\ last.status = 200
    /\ services["a"].enabled
    /\ services["a"].starts = 5
    /\ services["a"].observed = "Failed"
    /\ ttyd_session # NoSession /\ ttyd_session.pid \in procs

\* the service is Enabled, was observed Running and has a counter of 0
RunningAndReset(n) ==
    services[n].enabled /\ services[n].observed = "Running" /\ services[n].starts = 0

\* C25 as stated: a service that stays Enabled and whose adapter calls succeed, its
\* counter at most 10, eventually is and stays Enabled, observed Running, with a
\* counter of 0.
C25_HealthyConvergesFromTen ==
    []((services["a"].enabled /\ services["a"].starts <= 10)
           => <>[]RunningAndReset("a"))

\* C25, amended: the same with the counter at most 9 (a start request made at 10
\* brings the counter to 11 and the service is auto-disabled before it can run).
C25_HealthyConverges ==
    []((services["a"].enabled /\ services["a"].starts <= 9)
           => <>[]RunningAndReset("a"))

\* C25 witness: the start request made at a counter of 9 has brought it to 10, and
\* the service is still Enabled with its container starting
C25_Witness ==
    /\ last.op = "tick" /\ last.name = "a" /\ HasStart(last.calls)
    /\ services["a"].starts = 10 /\ services["a"].enabled
    /\ runtime["a"] = "Starting"

\* C26: a pass of the loop in which no adapter call raises takes one step for each
\* registered service, in the order of registration, the same in every pass: a pass
\* starts at the first service, a step that did not raise is followed by the step
\* for the next one or, after the last, by the sleep, and nothing else moves the
\* loop's position.
C26_RegistrationOrder ==
    [][/\ last'.op = "tick"
            => /\ last'.seen = (IF idx = 0 THEN 1 ELSE idx)
               /\ last'.name = ConfigOrder[last'.seen]
               /\ ~last'.raised
                    => idx' = (IF last'.seen = Len(ConfigOrder) THEN 0 ELSE last'.seen + 1)
       /\ last'.op # "tick" => idx' = idx]_vars

\* C26 witness: a pass has ended with the step for b, the second of two services,
\* after the step for a; both have had their start requested
C26_Witness ==
    /\ last.op = "tick" /\ last.name = "b" /\ last.seen = 2 /\ ~last.raised
    /\ idx = 0
    /\ HasStart(last.calls)
    /\ services["a"].starts = 1 /\ services["a"].container # None

\* C27: the names in the registry are those given at construction: no call, accepted
\* or refused, and no step of the loop adds or removes one.
C27_RegistryKeysFixed ==
    [][DOMAIN services' = DOMAIN services]_vars

\* C27 witness: after steps of the loop and accepted calls, a call with a name that
\* is not registered was refused, and the registry has the one name it began with
C27_Witness ==
    /\ last.op = "disable" /\ last.name = "b" /\ last.status = 404
    /\ DOMAIN services = {"a"}
    /\ services["a"].starts = 2
    /\ services["a"].version = "v2"

\* C28: a status call of the adapter that times out in the loop's step is an error
\* like any other: the step ends there, the Service record, its observed state
\* included, and the container are as before, and the loop goes on to its sleep.
C28_TimeoutIsAnError ==
    [][\A n \in DOMAIN services :
         (last'.op = "tick" /\ last'.name = n /\ last'.raised
              /\ last'.calls = <<"status">>)
         => /\ services'[n].observed = services[n].observed
            /\ services' = services
            /\ runtime' = runtime
            /\ idx' = 0]_vars

\* C28 witness: the status call failed in the step for a service last observed
\* Running whose container has failed since: it is still recorded as Running
C28_Witness ==
    /\ last.op = "tick" /\ last.name = "a" /\ last.raised /\ last.calls = <<"status">>
    /\ services["a"].observed = "Running"
    /\ runtime["a"] = "Failed"

\* C29: after a step of the loop in which no adapter call raised, the service of the
\* step is not both Enabled and above 10 failed starts, whatever was observed and
\* whatever enable calls came before; with one registered service the step is the
\* whole pass.
C29_NoEnabledAboveThreshold ==
    [][\A n \in DOMAIN services :
         TickDone(n) => ~(services'[n].enabled /\ services'[n].starts > 10)]_vars

\* C29 witness: an auto-disabled service was enabled again while its container was
\* starting; the step that followed requested no start and disabled it again
C29_Witness ==
    /\ last.op = "tick" /\ last.name = "a" /\ ~last.raised
    /\ last.calls = <<"status">>
    /\ services["a"].starts = 11
    /\ ~services["a"].enabled
    /\ services["a"].observed = "Starting"

\* C30: an attach call that fails because the service it names has no container
\* leaves the session as it was: in none of its steps does a bridge process end or
\* the session change.
C30_FailedAttachKeepsSession ==
    [][(/\ last'.op = "attach"
        /\ last'.name \in DOMAIN services
        /\ services[last'.name].container = None)
       => (procs' = procs /\ ttyd_session' = ttyd_session)]_vars

\* the step is a fetch_versions call for image
FetchFor(image) == fetched' # fetched /\ fetched'.image = image

\* C31: for every image at most one remote fetch of its tags succeeds.  Once one
\* has, a later fetch_versions call for the image, from whichever instance, contacts
\* neither the auth server nor the registry, returns the list in the cache and
\* leaves the cache as it is, so the list returned stays the one fetched first.  A
\* call that fails leaves the cache as it was, with no entry for the image.
C31_OneFetchPerImage ==
    [][\A image \in Images :
         /\ fetches'[image] <= 1
         /\ (fetches[image] = 1) <=> (image \in DOMAIN cache["TagFetcher"])
         /\ FetchFor(image)
              => IF fetches[image] >= 1
                 THEN /\ ~fetched'.raised
                      /\ fetched'.calls = <<>>
                      /\ fetched'.result = cache["TagFetcher"][image]
                      /\ cache' = cache
                 ELSE fetched'.raised
                      => /\ cache' = cache
                         /\ \A o \in DOMAIN cache : image \notin DOMAIN cache'[o]]_vars

\* C31 witness: the second instance asked for an image whose tags an earlier call
\* had fetched: it got the cached list with no remote call, while the other image,
\* never fetched with success, has no entry
C31_Witness ==
    /\ fetched.fetcher = "f2" /\ fetched.image = "img1"
    /\ fetched.calls = <<>> /\ ~fetched.raised
    /\ fetched.result = <<"v1", "v2">>
    /\ fetches["img1"] = 1
    /\ "img2" \notin DOMAIN cache["TagFetcher"]

\* C32: send_command lets no exception out; when send and recvfrom both return, it
\* returns the bytes received and True; when there is no socket or one of the two
\* calls fails it returns False; and after a send that failed, recvfrom is not
\* called.
C32_SendCommandResult ==
    /\ ~sent.raised
    /\ (sent.send = "ok" /\ sent.recv = "ok") => (sent.ok /\ sent.data = sent.received)
    /\ (sent.command # None /\ (sent.send # "ok" \/ sent.recv # "ok")) => ~sent.ok
    /\ sent.send # "ok" => sent.recv = "none"
====
